---- MODULE Spec2Model ----
(***************************************************************************)
(* mal-gtk: the tag-stream deserializer of anime_serializer.cpp and the    *)
(* synchronized catalog store of mal.hpp.                                  *)
(*                                                                         *)
(* Strings whose characters matter (text values, dates, titles) are        *)
(* sequences of character codes; element names and enum values are TLA+    *)
(* strings, since the code only compares them for equality.                *)
(***************************************************************************)
EXTENDS Integers, Sequences, FiniteSets, TLC

(***************************************************************************)
(* Bounds of the model.                                                    *)
(***************************************************************************)
\* items in a well-formed document
MaxItems == 2
\* nodes in a raw (arbitrary) node stream
MaxLen == 4

(***************************************************************************)
(* Text values.                                                            *)
(***************************************************************************)
S_5 == <<53>>
S_7 == <<55>>
S_Foo == <<70, 111, 111>>
S_Bar == <<66, 97, 114>>
S_Empty == << >>

\* dates: "2020-04-01", "2020-04-15", "2019-10-05"
D_2020_04_01 == <<50, 48, 50, 48, 45, 48, 52, 45, 48, 49>>
D_2020_04_15 == <<50, 48, 50, 48, 45, 48, 52, 45, 49, 53>>
D_2019_10_05 == <<50, 48, 49, 57, 45, 49, 48, 45, 48, 53>>

\* "&amp;" and "&"
S_AmpEntity == <<38, 97, 109, 112, 59>>
S_Amp == <<38>>

(***************************************************************************)
(* enum FIELDS and the two lookup tables.                                  *)
(***************************************************************************)
FIELDS ==
    { "FIELDNONE", "FIELDTEXT",
      "ANIMEDBID", "SERIESTITLE", "SERIESTYPE", "SERIESEPISODES", "SERIESSTATUS",
      "SERIESDATEBEGIN", "SERIESDATEEND", "SERIESIMAGEURL", "SERIESSYNONYMS",
      "ANIME", "ENTRY", "MYID", "MYWATCHEDEPISODES", "MYSTARTDATE", "MYFINISHDATE",
      "MYSCORE", "MYSTATUS", "MYREWATCHING", "MYREWATCHINGEP", "MYLASTUPDATED",
      "MYTAGS", "USERID", "SYNOPSIS" }

field_map ==
    ("my_id" :> "MYID") @@
    ("series_animedb_id" :> "ANIMEDBID") @@
    ("id" :> "ANIMEDBID") @@
    ("series_title" :> "SERIESTITLE") @@
    ("title" :> "SERIESTITLE") @@
    ("series_type" :> "SERIESTYPE") @@
    ("type" :> "SERIESTYPE") @@
    ("series_episodes" :> "SERIESEPISODES") @@
    ("episodes" :> "SERIESEPISODES") @@
    ("series_status" :> "SERIESSTATUS") @@
    ("status" :> "SERIESSTATUS") @@
    ("series_start" :> "SERIESDATEBEGIN") @@
    ("start_date" :> "SERIESDATEBEGIN") @@
    ("series_end" :> "SERIESDATEEND") @@
    ("end_date" :> "SERIESDATEEND") @@
    ("series_image" :> "SERIESIMAGEURL") @@
    ("image" :> "SERIESIMAGEURL") @@
    ("series_synonyms" :> "SERIESSYNONYMS") @@
    ("synonyms" :> "SERIESSYNONYMS") @@
    ("my_score" :> "MYSCORE") @@
    ("score" :> "MYSCORE") @@
    ("english" :> "SERIESSYNONYMS") @@
    ("my_watched_episodes" :> "MYWATCHEDEPISODES") @@
    ("my_start_date" :> "MYSTARTDATE") @@
    ("my_finish_date" :> "MYFINISHDATE") @@
    ("my_status" :> "MYSTATUS") @@
    ("my_rewatching" :> "MYREWATCHING") @@
    ("my_rewatching_ep" :> "MYREWATCHINGEP") @@
    ("my_last_updated" :> "MYLASTUPDATED") @@
    ("my_tags" :> "MYTAGS") @@
    ("user_id" :> "USERID") @@
    ("synopsis" :> "SYNOPSIS") @@
    ("entry" :> "ENTRY") @@
    ("anime" :> "ANIME") @@
    ("#text" :> "FIELDTEXT") @@
    ("user_name" :> "FIELDNONE") @@
    ("user_watching" :> "FIELDNONE") @@
    ("user_completed" :> "FIELDNONE") @@
    ("user_onhold" :> "FIELDNONE") @@
    ("user_dropped" :> "FIELDNONE") @@
    ("user_plantowatch" :> "FIELDNONE") @@
    ("user_days_spent_watching" :> "FIELDNONE") @@
    ("myinfo" :> "FIELDNONE") @@
    ("myanimelist" :> "FIELDNONE")

\* The keys of member_map: the fields that have a setter.
member_map ==
    { "ANIMEDBID", "SERIESTITLE", "SERIESDATEBEGIN", "SERIESDATEEND",
      "SERIESIMAGEURL", "SERIESSYNONYMS", "SYNOPSIS",
      "SERIESTYPE", "SERIESSTATUS", "SERIESEPISODES",
      "MYTAGS", "MYSTARTDATE", "MYFINISHDATE", "MYID", "MYLASTUPDATED",
      "MYSCORE", "MYREWATCHING",
      "MYSTATUS", "MYWATCHEDEPISODES", "MYREWATCHINGEP" }

(***************************************************************************)
(* The Anime record.  A record is the text each setter last stored, one    *)
(* slot per setter of member_map; a default-constructed Anime has every    *)
(* slot empty.                                                             *)
(***************************************************************************)
Anime == [f \in member_map |-> S_Empty]

\* member_iter->second(anime, std::move(value)): the setter of field f.
Setter(a, f, value) == [a EXCEPT ![f] = value]

(***************************************************************************)
(* The injected text cleaner: replaces the entity "&amp;" by "&" and       *)
(* leaves every other character alone.                                     *)
(***************************************************************************)
RECURSIVE parse_html_entities(_)
parse_html_entities(v) ==
    IF v = << >> THEN << >>
    ELSE IF Len(v) >= Len(S_AmpEntity) /\ SubSeq(v, 1, Len(S_AmpEntity)) = S_AmpEntity
         THEN S_Amp \o parse_html_entities(SubSeq(v, Len(S_AmpEntity) + 1, Len(v)))
         ELSE <<Head(v)>> \o parse_html_entities(Tail(v))

(***************************************************************************)
(* Nodes delivered by xmlTextReaderRead.  A text node and a                *)
(* significant-whitespace node both carry the name "#text" (the name the   *)
(* field map registers as FIELDTEXT); a comment carries "#comment".        *)
(***************************************************************************)
Element(n) == [type |-> "ELEMENT", name |-> n, value |-> S_Empty]
EndElement(n) == [type |-> "END_ELEMENT", name |-> n, value |-> S_Empty]
Text(v) == [type |-> "TEXT", name |-> "#text", value |-> v]
Whitespace == [type |-> "SIGNIFICANT_WHITESPACE", name |-> "#text", value |-> <<32>>]
Comment == [type |-> "COMMENT", name |-> "#comment", value |-> S_Foo]


(***************************************************************************)
(* The state.                                                              *)
(*   doc                 what the input encodes (shape, items, spacing)    *)
(*   xml                 the nodes the reader delivers for the input       *)
(*   pos                 nodes read so far                                 *)
(*   ret                 1 reading, 0 end of input, -1 read failure        *)
(*   field .. res        the locals of deserialize                         *)
(***************************************************************************)
VARIABLES doc, xml, pos, ret, field, prev_field,
          entry_after_anime, seen_anime, seen_entry, anime, res

(***************************************************************************)
(* The state of class MAL's catalog store.                                 *)
(*   m_list     the four std::set collections, each in iteration order     *)
(*   m_mutex    the owner of each collection's std::mutex (0: unlocked)    *)
(*   threads    each caller thread's frame: where it is in for_each_* or   *)
(*              in the store update, and that call's arguments and locals  *)
(***************************************************************************)
\*   whole      history: each collection as the updates completed so far,
\*              each applied in one piece, leave it
\*   received   history: of the records each collection has been handed,
\*              the first 7 characters of the start date and the title
VARIABLES m_list, m_mutex, threads, whole, received

(***************************************************************************)
(* The lock bridge of the shared curl handle.                              *)
(*   map_mutex  the owner of each lock kind's mutex (0: unlocked)          *)
(*   transfers  each caller thread's place in the lock and unlock          *)
(*              callbacks, and the lock kinds it holds                     *)
(***************************************************************************)
VARIABLES map_mutex, transfers

(***************************************************************************)
(* The image cache.                                                        *)
(*   image_cache    the map: a set of <<key, payload>>, one per stored key *)
(*   get_image      the frame of the running get_image_sync call           *)
(*   fetch_history  history: per key the payload of its first successful   *)
(*                  fetch, and the fetches started after that success      *)
(***************************************************************************)
VARIABLES image_cache, get_image, fetch_history

svars == <<m_list, m_mutex, threads, whole, received>>

lvars == <<map_mutex, transfers>>

cvars == <<image_cache, get_image, fetch_history>>

dvars == <<doc, xml, pos, ret, field, prev_field,
           entry_after_anime, seen_anime, seen_entry, anime, res>>

\* The locals of deserialize as one value.
Locals ==
    [field |-> field, prev_field |-> prev_field,
     entry_after_anime |-> entry_after_anime,
     seen_anime |-> seen_anime, seen_entry |-> seen_entry,
     anime |-> anime, res |-> res]

\* The locals as declared before the loop.
InitLocals ==
    [field |-> "FIELDNONE", prev_field |-> "FIELDNONE",
     entry_after_anime |-> FALSE,
     seen_anime |-> FALSE, seen_entry |-> FALSE,
     anime |-> Anime, res |-> << >>]

(***************************************************************************)
(* One iteration of the read loop, on locals s and node n.                 *)
(***************************************************************************)
\* field_map.find(name): a known name shifts field into prev_field.
LookupField(s, name) ==
    IF name \in DOMAIN field_map
    THEN [s EXCEPT !.prev_field = s.field, !.field = field_map[name]]
    ELSE s

\* Variant: the shape is decided at any entry that follows an anime, not
\* only at the first entry.
OnElementAnyEntry(s) ==
    [s EXCEPT
       !.entry_after_anime =
           s.entry_after_anime \/ (s.field = "ENTRY" /\ s.seen_anime),
       !.seen_entry = s.seen_entry \/ s.field = "ENTRY",
       !.seen_anime = s.seen_anime \/ s.field = "ANIME"]

\* case XML_READER_TYPE_ELEMENT
OnElement(s) ==
    [s EXCEPT
       !.entry_after_anime =
           s.entry_after_anime
             \/ (s.field = "ENTRY" /\ s.seen_anime /\ ~s.seen_entry),
       !.seen_entry = s.seen_entry \/ s.field = "ENTRY",
       !.seen_anime = s.seen_anime \/ s.field = "ANIME"]

\* Variant: the end of either wrapper finalizes, whatever the shape.
FinalizesEitherWrapper(s) == s.field \in {"ENTRY", "ANIME"}

\* The condition under which an end element finalizes the record.
Finalizes(s) ==
    \/ s.entry_after_anime /\ s.field = "ENTRY"
    \/ ~s.entry_after_anime /\ s.field = "ANIME"

\* Variant: the accumulator is not reset after the copy.
PushBackKeepsAccumulator(s) == [s EXCEPT !.res = Append(s.res, s.anime)]

\* res.push_back(std::make_shared<Anime>(anime)); anime = Anime();
PushBack(s) == [s EXCEPT !.res = Append(s.res, s.anime), !.anime = Anime]

\* case XML_READER_TYPE_END_ELEMENT
OnEndElement(s) ==
    [(IF Finalizes(s) THEN PushBack(s) ELSE s) EXCEPT !.field = "FIELDNONE"]

\* case XML_READER_TYPE_TEXT
OnText(s, value) ==
    IF Len(value) > 0 /\ s.prev_field \in member_map
    THEN [s EXCEPT !.anime = Setter(s.anime, s.prev_field, value)]
    ELSE s

\* case XML_READER_TYPE_SIGNIFICANT_WHITESPACE
OnWhitespace(s) == s

ProcessNode(s, n) ==
    IF Len(n.name) > 0
    THEN LET s1 == LookupField(s, n.name)
         IN  CASE n.type = "ELEMENT" -> OnElement(s1)
               [] n.type = "END_ELEMENT" -> OnEndElement(s1)
               [] n.type = "TEXT" -> OnText(s1, parse_html_entities(n.value))
               [] n.type = "SIGNIFICANT_WHITESPACE" -> OnWhitespace(s1)
               [] OTHER -> s1
    ELSE s

\* The loop body run on nodes i..j in order, from locals s.  The range is
\* split in two so that the evaluation stays shallow on long streams; the
\* nodes are still processed one by one, first to last.
RECURSIVE RunRange(_, _, _, _)
RunRange(s, nodes, i, j) ==
    IF i > j THEN s
    ELSE IF i = j THEN ProcessNode(s, nodes[i])
    ELSE LET m == (i + j) \div 2
             s1 == RunRange(s, nodes, i, m)
         IN  IF s1.field \in FIELDS THEN RunRange(s1, nodes, m + 1, j) ELSE s1

\* deserialize as a function of the node stream: the locals after the
\* first k nodes, and after all of them.
RunTo(nodes, k) == RunRange(InitLocals, nodes, 1, k)

Run(nodes) == RunTo(nodes, Len(nodes))


(***************************************************************************)
(* The documents: the two wire shapes of the comment above deserialize.    *)
(* Shape A is <anime><entry>..</entry>..</anime> (search results), shape B *)
(* is <entry><anime>..</anime>..</entry>; each item holds an id child      *)
(* and a title child, under the names the shape's service uses.  A child   *)
(* whose text is empty is an element with no text node.                    *)
(***************************************************************************)
Ids == {S_5, S_7}
Titles == {S_Foo, S_Bar, S_Empty}
Items == [id : Ids, title : Titles]
ItemLists == UNION {[1..n -> Items] : n \in 0..MaxItems}

OuterName(shape) == IF shape = "A" THEN "anime" ELSE "entry"
ItemName(shape) == IF shape = "A" THEN "entry" ELSE "anime"
IdName(shape) == IF shape = "A" THEN "id" ELSE "series_animedb_id"
TitleName(shape) == IF shape = "A" THEN "title" ELSE "series_title"

Space(spaced) == IF spaced THEN <<Whitespace>> ELSE << >>

EncodeChild(name, v, spaced) ==
    <<Element(name)>> \o (IF v = S_Empty THEN << >> ELSE <<Text(v)>>)
        \o <<EndElement(name)>> \o Space(spaced)

EncodeItem(shape, it, spaced) ==
    <<Element(ItemName(shape))>> \o Space(spaced)
        \o EncodeChild(IdName(shape), it.id, spaced)
        \o EncodeChild(TitleName(shape), it.title, spaced)
        \o <<EndElement(ItemName(shape))>> \o Space(spaced)

RECURSIVE EncodeItems(_, _, _)
EncodeItems(shape, items, spaced) ==
    IF items = << >> THEN << >>
    ELSE EncodeItem(shape, Head(items), spaced) \o EncodeItems(shape, Tail(items), spaced)

Encode(shape, items, spaced) ==
    <<Element(OuterName(shape))>> \o Space(spaced)
        \o EncodeItems(shape, items, spaced)
        \o <<EndElement(OuterName(shape))>>

\* The record an item stands for.
RecordOf(it) ==
    [Anime EXCEPT !["ANIMEDBID"] = it.id, !["SERIESTITLE"] = it.title]

RecordsOf(items) == [i \in 1..Len(items) |-> RecordOf(items[i])]

(***************************************************************************)
(* serialize: the request body of an update or add call, as the nodes the  *)
(* reader delivers for it (the XML declaration is not a node; an element   *)
(* with an empty body is a start and an end node).  A record field holds   *)
(* the text its setter was given; the typed members serialize reads are    *)
(* that text converted.                                                    *)
(***************************************************************************)
S_0 == <<48>>
S_1 == <<49>>
S_2 == <<50>>
S_3 == <<51>>
S_8 == <<56>>
S_12 == <<49, 50>>
S_FooBar == <<70, 111, 111, 59, 32, 66, 97, 114>>
S_TagSeparator == <<59, 32>>

\* std::to_string of the integer a digit text stands for: no leading
\* zeros; a member never set is 0.
RECURSIVE to_string(_)
to_string(v) ==
    IF v = << >> THEN S_0
    ELSE IF Len(v) > 1 /\ Head(v) = 48 THEN to_string(Tail(v))
    ELSE v

\* Glib::Date::set_parse on "YYYY-MM-DD" and format_string("%m%d%Y"); a
\* text that is no date (valid() fails) renders as nothing.
format_date(d) ==
    IF /\ Len(d) = 10
       /\ d[5] = 45
       /\ d[8] = 45
       /\ \A i \in {1, 2, 3, 4, 6, 7, 9, 10} : d[i] \in 48..57
       /\ <<d[6], d[7]>> # <<48, 48>>
       /\ <<d[9], d[10]>> # <<48, 48>>
    THEN <<d[6], d[7], d[9], d[10], d[1], d[2], d[3], d[4]>>
    ELSE << >>

\* (anime.enable_reconsuming) ? "1" : "0"
format_flag(v) == IF v = S_1 THEN S_1 ELSE S_0

\* anime.tags: the tags of a tag text, which separates them by "; ".
RECURSIVE split_tags(_, _)
split_tags(v, tag) ==
    IF v = << >> THEN (IF tag = << >> THEN << >> ELSE <<tag>>)
    ELSE IF Len(v) >= 2 /\ SubSeq(v, 1, 2) = S_TagSeparator
         THEN <<tag>> \o split_tags(SubSeq(v, 3, Len(v)), << >>)
         ELSE split_tags(Tail(v), Append(tag, Head(v)))

\* The loop of serialize over anime.tags: the tags joined by "; ".
RECURSIVE join_tags(_)
join_tags(tags) ==
    IF tags = << >> THEN << >>
    ELSE IF Len(tags) = 1 THEN tags[1]
    ELSE tags[1] \o S_TagSeparator \o join_tags(Tail(tags))

serialize(a) ==
    <<Element("entry")>>
        \o EncodeChild("episode", to_string(a["MYWATCHEDEPISODES"]), FALSE)
        \o EncodeChild("status", to_string(a["MYSTATUS"]), FALSE)
        \o EncodeChild("score", to_string(a["MYSCORE"]), FALSE)
        \o EncodeChild("downloaded_episodes", to_string(S_Empty), FALSE)
        \o EncodeChild("storage_type", S_Empty, FALSE)
        \o EncodeChild("storage_value", S_Empty, FALSE)
        \o EncodeChild("times_rewatched", S_Empty, FALSE)
        \o EncodeChild("rewatch_value", S_Empty, FALSE)
        \o EncodeChild("date_start", format_date(a["MYSTARTDATE"]), FALSE)
        \o EncodeChild("date_finish", format_date(a["MYFINISHDATE"]), FALSE)
        \o EncodeChild("priority", S_Empty, FALSE)
        \o EncodeChild("enable_discussion", S_Empty, FALSE)
        \o EncodeChild("enable_rewatching", format_flag(a["MYREWATCHING"]), FALSE)
        \o EncodeChild("comments", S_Empty, FALSE)
        \o EncodeChild("fansub_group", S_Empty, FALSE)
        \o EncodeChild("tags", join_tags(split_tags(a["MYTAGS"], << >>)), FALSE)
        \o EncodeChild("rewatch_episode", to_string(a["MYREWATCHINGEP"]), FALSE)
        \o <<EndElement("entry")>>

\* The body inside an envelope: an element around it, or nothing.
Envelopes == {"anime", "myanimelist", "none"}
Envelope(outer, body) ==
    IF outer = "none" THEN body
    ELSE <<Element(outer)>> \o body \o <<EndElement(outer)>>

\* The records that are serialized: their user fields set, the rest empty.
SerializedRecords ==
    {[Anime EXCEPT !["MYWATCHEDEPISODES"] = ep, !["MYSTATUS"] = S_2,
                   !["MYSCORE"] = S_8, !["MYSTARTDATE"] = start,
                   !["MYFINISHDATE"] = D_2020_04_15, !["MYREWATCHING"] = flag,
                   !["MYREWATCHINGEP"] = S_3, !["MYTAGS"] = tags] :
        ep \in {S_5, S_12}, start \in {D_2020_04_01, S_Empty},
        flag \in {S_0, S_1}, tags \in {S_Empty, S_Foo, S_FooBar}}

\* Raw node streams: any sequence of these nodes.
RawNames == {"anime", "entry", "title", "xyz_unknown"}
RawNodes ==
    {Element(n) : n \in RawNames} \cup {EndElement(n) : n \in RawNames}
        \cup {Text(S_Foo), Text(S_Empty), Whitespace, Comment}

\* The open elements (innermost first) left by an end element named n: it
\* closes the nearest open element of its name; the elements opened after
\* that one were empty elements (<x/>), which have no end node.
RECURSIVE CloseElement(_, _)
CloseElement(open, n) ==
    IF open = << >> THEN << >>
    ELSE IF Head(open) = n THEN Tail(open)
    ELSE CloseElement(Tail(open), n)

IsTextLike(n) == n.type \in {"TEXT", "SIGNIFICANT_WHITESPACE"}

\* The nodes are a prefix of what the reader delivers for a document: end
\* elements match an open element, text stands inside an element and is
\* never split in two nodes, and nothing but comments follows the root.
\* open: the open elements; state: "prolog", "root" or "epilog";
\* prev: the node before.
RECURSIVE WellFormedFrom(_, _, _, _)
WellFormedFrom(open, state, prev, nodes) ==
    IF nodes = << >> THEN TRUE
    ELSE LET n == Head(nodes)
             rest == Tail(nodes)
         IN  CASE n.type = "ELEMENT" ->
                    /\ state # "epilog"
                    /\ WellFormedFrom(<<n.name>> \o open, "root", n, rest)
               [] n.type = "END_ELEMENT" ->
                    /\ state = "root"
                    /\ \E i \in 1..Len(open) : open[i] = n.name
                    /\ LET left == CloseElement(open, n.name)
                       IN  WellFormedFrom(left,
                                          IF left = << >> THEN "epilog" ELSE "root",
                                          n, rest)
               [] IsTextLike(n) ->
                    /\ state = "root"
                    /\ ~IsTextLike(prev)
                    /\ WellFormedFrom(open, state, n, rest)
               [] OTHER -> WellFormedFrom(open, state, n, rest)

WellFormed(nodes) == WellFormedFrom(<< >>, "prolog", Comment, nodes)

RawStreams ==
    {nodes \in UNION {[1..n -> RawNodes] : n \in 0..MaxLen} : WellFormed(nodes)}

RawDoc == [shape |-> "raw", items |-> << >>, spaced |-> FALSE]

(***************************************************************************)
(* The catalog store.                                                      *)
(***************************************************************************)
\* threads that call into the store
NumThreads == 2
\* records in one batch
MaxBatch == 2

Threads == 1..NumThreads
NoThread == 0

Colls == {"m_anime_list", "m_manga_list",
          "m_anime_search_results", "m_manga_search_results"}

MALItem(id, title, date) ==
    [Anime EXCEPT !["ANIMEDBID"] = id, !["SERIESTITLE"] = title,
                  !["SERIESDATEBEGIN"] = date]

series_date_begin(a) == a["SERIESDATEBEGIN"]
series_title(a) == a["SERIESTITLE"]

\* std::string::compare: the sign of the lexicographic comparison.
RECURSIVE compare(_, _)
compare(a, b) ==
    IF a = << >> /\ b = << >> THEN 0
    ELSE IF a = << >> THEN -1
    ELSE IF b = << >> THEN 1
    ELSE IF Head(a) < Head(b) THEN -1
    ELSE IF Head(a) > Head(b) THEN 1
    ELSE compare(Tail(a), Tail(b))

\* std::string::substr(p, n)
substr(a, p, n) == SubSeq(a, p + 1, IF Len(a) < p + n THEN Len(a) ELSE p + n)

\* The two values the order reads: the first 7 characters of the start
\* date, and the title.
SlotPair(a) == <<substr(series_date_begin(a), 0, 7), series_title(a)>>

\* Variant: the older season first.
MALItemComparatorAscending(l, r) ==
    LET season == compare(substr(series_date_begin(l), 0, 7),
                          substr(series_date_begin(r), 0, 7))
    IN  IF season = 0
        THEN compare(series_title(l), series_title(r)) < 0
        ELSE season < 0

\* Variant: equal titles count as ordered (<= for <).
MALItemComparatorNotStrict(l, r) ==
    LET season == compare(substr(series_date_begin(l), 0, 7),
                          substr(series_date_begin(r), 0, 7))
    IN  IF season = 0
        THEN compare(series_title(l), series_title(r)) <= 0
        ELSE season > 0

\* Variant: the whole start date is compared, not its first 7 characters.
MALItemComparatorWholeDate(l, r) ==
    LET season == compare(series_date_begin(l), series_date_begin(r))
    IN  IF season = 0
        THEN compare(series_title(l), series_title(r)) < 0
        ELSE season > 0

\* Variant: records of one season and title are ordered by catalog id.
MALItemComparatorThenId(l, r) ==
    LET season == compare(substr(series_date_begin(l), 0, 7),
                          substr(series_date_begin(r), 0, 7))
        title == compare(series_title(l), series_title(r))
    IN  IF season = 0
        THEN IF title = 0 THEN compare(l["ANIMEDBID"], r["ANIMEDBID"]) < 0
             ELSE title < 0
        ELSE season > 0

MALItemComparator(l, r) ==
    LET season == compare(substr(series_date_begin(l), 0, 7),
                          substr(series_date_begin(r), 0, 7))
    IN  IF season = 0
        THEN compare(series_title(l), series_title(r)) < 0
        ELSE season > 0

(***************************************************************************)
(* std::set<std::shared_ptr<T>, MALItemComparator<T>>, as the sequence of  *)
(* its elements in iteration order.                                        *)
(***************************************************************************)
\* lower_bound: the first position whose element is not ordered before x.
LowerBound(s, x) ==
    LET C == {i \in 1..Len(s) : ~MALItemComparator(s[i], x)}
    IN  IF C = {} THEN Len(s) + 1 ELSE CHOOSE i \in C : \A j \in C : i <= j

\* find: the position of the element equivalent to x, or 0.
Find(s, x) ==
    LET i == LowerBound(s, x)
    IN  IF i <= Len(s) /\ ~MALItemComparator(x, s[i]) THEN i ELSE 0

InsertAt(s, i, x) == SubSeq(s, 1, i - 1) \o <<x>> \o SubSeq(s, i, Len(s))

\* The store's insertion of one record: an equivalent entry is the same
\* slot and is replaced, anything else is inserted at its place.
InsertOrReplace(s, x) ==
    LET i == Find(s, x)
    IN  IF i # 0 THEN [s EXCEPT ![i] = x] ELSE InsertAt(s, LowerBound(s, x), x)

RECURSIVE ApplyAll(_, _)
ApplyAll(s, batch) ==
    IF batch = << >> THEN s
    ELSE ApplyAll(InsertOrReplace(s, Head(batch)), Tail(batch))


R1 == MALItem(S_5, S_Foo, D_2020_04_01)
R2 == MALItem(S_7, S_Foo, D_2020_04_15)
R3 == MALItem(S_5, S_Foo, D_2019_10_05)
R4 == MALItem(S_7, S_Bar, D_2020_04_01)
StoreRecords == {R1, R2, R3, R4}

\* The batches a list or search call may hand to the store.
Batches == UNION {[1..n -> StoreRecords] : n \in 0..MaxBatch}

\* The collections the single caller works on.
StoreColls == {"m_anime_list", "m_anime_search_results"}

\* The collections and batches of the callers that run concurrently.
ConcColls == {"m_anime_list", "m_manga_list"}
ConcBatches == {b \in Batches : b \in {<<R1, R4>>, <<R2>>}}

\* Variant: for_each_manga locks the anime list's mutex.
ForEachMutexOfAnime(c) == IF c = "m_manga_list" THEN "m_anime_list" ELSE c

\* The mutex for_each_anime, for_each_manga, for_each_anime_search_result
\* and for_each_manga_search_result lock: the one of their own collection.
ForEachMutex(c) == c

\* The mutex the store update of collection c locks.
ApplyMutex(c) == c

\* A thread's frame.
\*   pc       "idle", or where the thread is in for_each_* or in the update
\*   coll     the collection the call works on
\*   batch    the records the update inserts;  k: how many it has inserted,
\*            or how many entries the traversal has visited
\*   visited  the entries the visitor has been called with
\*   start    the collection as the call found it when it took the lock
\*   last     the collection and batch of the update the thread has just
\*            completed;  again: the running update repeats that one
\*   cut      the batch is what deserialize returned after a read failure
\*   f        the visitor of the traversal: "plain" takes no lock,
\*            "relocks" calls for_each_* of the same collection
IdleFrame ==
    [pc |-> "idle", coll |-> "none", batch |-> << >>, k |-> 0,
     start |-> << >>, visited |-> << >>, last |-> << >>, again |-> FALSE,
     cut |-> FALSE, f |-> "plain"]

\* The collection and the batch of the runs with visitors that lock.
VisitColls == {"m_anime_list"}
VisitBatches == {b \in Batches : b = <<R1, R4>>}

\* The wire shape of the response a collection is filled from: search
\* results come as <anime><entry>, list results as <entry><anime>.
ResponseShape(c) ==
    IF c \in {"m_anime_search_results", "m_manga_search_results"} THEN "A" ELSE "B"

\* The collections the list and search calls of the model fill, and the
\* items their responses hold.
ListColls == {"m_anime_list", "m_anime_search_results"}
ListItems == {it \in Items : it.id = S_5 /\ it.title # S_Empty}
ListResponses == {items \in ItemLists : \A i \in 1..Len(items) : items[i] \in ListItems}

\* The thread that makes the list and search calls, and the one that
\* traverses meanwhile.
ListCallers == {t \in Threads : t = 1}
ListReaders == {t \in Threads : t = 2}

(***************************************************************************)
(* The lock bridge: the callbacks the shared curl handle calls to guard    *)
(* one kind of its data.  The kinds a handle can be asked to share.        *)
(***************************************************************************)
curl_lock_data ==
    {"CURL_LOCK_DATA_COOKIE", "CURL_LOCK_DATA_DNS", "CURL_LOCK_DATA_SSL_SESSION"}

\* Variant: one mutex guards every kind.
map_mutex_find_single(data) == "CURL_LOCK_DATA_COOKIE"

\* map_mutex.find(data): the mutex of a lock kind is the one stored under it.
map_mutex_find(data) == data

\* A thread's place in the callbacks.
\*   pc    "idle", or "lock": inside involke_lock_function, waiting
\*   data  the kind that call locks
\*   held  the kinds locked and not yet unlocked by this thread
IdleTransfer == [pc |-> "idle", data |-> "none", held |-> {}]

(***************************************************************************)
(* The image cache.                                                        *)
(***************************************************************************)
\* calls of get_image_sync in one run
MaxCalls == 4

CacheKeys == {"url1", "url2"}
Payloads == {S_Foo, S_Bar}

\* History: the key has been fetched successfully; the payload of that
\* first success.
FetchedBefore(key) == \E e \in fetch_history.first : e[1] = key
FirstPayload(key) == (CHOOSE e \in fetch_history.first : e[1] = key)[2]

\* Variant: the lookup never finds the key.
cache_find_never(cache, key) == FALSE

\* image_cache.find(key) != image_cache.end()
cache_find(cache, key) == \E e \in cache : e[1] = key

\* The payload stored under a key the map holds.
cache_at(cache, key) == (CHOOSE e \in cache : e[1] = key)[2]

\* image_cache[key] = payload
cache_store(cache, key, payload) ==
    {e \in cache : e[1] # key} \cup {<<key, payload>>}

\* The frame of get_image_sync.
\*   pc      "idle", "find" (looking the key up), "fetch" (the fetch is
\*           running) or "return"
\*   key     the key of the call;  value: what the call returns
\*   hit     the lookup found the key
\*   known   history: the key had been fetched successfully before the call
\*   calls   calls made so far
IdleGetImage ==
    [pc |-> "idle", key |-> "none", value |-> << >>, hit |-> FALSE,
     known |-> FALSE, calls |-> 0]

(***************************************************************************)
(* Initial states.                                                         *)
(***************************************************************************)
InitStore ==
    /\ m_list = [c \in Colls |-> << >>]
    /\ m_mutex = [c \in Colls |-> NoThread]
    /\ threads = [t \in Threads |-> IdleFrame]
    /\ whole = [c \in Colls |-> << >>]
    /\ received = [c \in Colls |-> {}]

\* The mutex table as the constructor fills it; no callback is running.
InitShare ==
    /\ map_mutex = [data \in curl_lock_data |-> NoThread]
    /\ transfers = [t \in Threads |-> IdleTransfer]

\* Nothing has been fetched.
InitCache ==
    /\ image_cache = {}
    /\ get_image = IdleGetImage
    /\ fetch_history = [first |-> {}, after |-> [key \in CacheKeys |-> 0]]

\* The MAL object as constructed.
InitObject == InitStore /\ InitShare /\ InitCache

InitDeserialize(d, nodes) ==
    /\ doc = d
    /\ xml = nodes
    /\ pos = 0
    /\ ret = 1
    /\ field = InitLocals.field
    /\ prev_field = InitLocals.prev_field
    /\ entry_after_anime = InitLocals.entry_after_anime
    /\ seen_anime = InitLocals.seen_anime
    /\ seen_entry = InitLocals.seen_entry
    /\ anime = InitLocals.anime
    /\ res = InitLocals.res

\* deserialize is called on a document of shape A or B.
Init ==
    /\ \E shape \in {"A", "B"}, items \in ItemLists, spaced \in BOOLEAN :
          InitDeserialize([shape |-> shape, items |-> items, spaced |-> spaced],
                          Encode(shape, items, spaced))
    /\ InitObject

\* deserialize is called on an arbitrary node stream.
InitRaw ==
    /\ \E nodes \in RawStreams : InitDeserialize(RawDoc, nodes)
    /\ InitObject

\* deserialize is called on a serialized record inside an envelope.
InitRoundTrip ==
    /\ \E r \in SerializedRecords, outer \in Envelopes :
          InitDeserialize([shape |-> "serialized", items |-> << >>, spaced |-> FALSE,
                           record |-> r, envelope |-> outer],
                          Envelope(outer, serialize(r)))
    /\ InitObject

\* No deserialize call is running; the store is as constructed.
InitMAL ==
    /\ InitDeserialize(RawDoc, << >>)
    /\ InitObject

(***************************************************************************)
(* deserialize: the read loop.                                             *)
(***************************************************************************)
\* xmlTextReaderRead returned 1: the loop body runs on the node.
ReadNode ==
    /\ ret = 1
    /\ pos < Len(xml)
    /\ LET s == ProcessNode(Locals, xml[pos + 1])
       IN  /\ field' = s.field
           /\ prev_field' = s.prev_field
           /\ entry_after_anime' = s.entry_after_anime
           /\ seen_anime' = s.seen_anime
           /\ seen_entry' = s.seen_entry
           /\ anime' = s.anime
           /\ res' = s.res
    /\ pos' = pos + 1
    /\ UNCHANGED <<doc, xml, ret, svars, lvars, cvars>>

\* xmlTextReaderRead returned 0: end of input, res is returned.
ReadEnd ==
    /\ ret = 1
    /\ pos = Len(xml)
    /\ ret' = 0
    /\ UNCHANGED <<doc, xml, pos, field, prev_field, entry_after_anime,
                   seen_anime, seen_entry, anime, res, svars, lvars, cvars>>

\* Variant: a read failure discards the records and returns none.
ReadErrorDiscards ==
    /\ ret = 1
    /\ ret' = -1
    /\ res' = << >>
    /\ UNCHANGED <<doc, xml, pos, field, prev_field, entry_after_anime,
                   seen_anime, seen_entry, anime, svars, lvars, cvars>>

\* xmlTextReaderRead returned -1: the error is logged, res is returned.
ReadError ==
    /\ ret = 1
    /\ ret' = -1
    /\ UNCHANGED <<doc, xml, pos, field, prev_field, entry_after_anime,
                   seen_anime, seen_entry, anime, res, svars, lvars, cvars>>

(***************************************************************************)
(* for_each_*: lock the collection's mutex, visit every entry in order,    *)
(* unlock on return.                                                       *)
(***************************************************************************)
ForEachCall(t, c) ==
    /\ threads[t].pc = "idle"
    /\ threads' = [threads EXCEPT ![t] =
                       [IdleFrame EXCEPT !.pc = "for_each_lock", !.coll = c]]
    /\ UNCHANGED <<m_list, m_mutex, whole, received, dvars, lvars, cvars>>

\* Variant: the lock guard is a temporary, gone before the traversal starts.
ForEachLockTemporary(t) ==
    /\ threads[t].pc = "for_each_lock"
    /\ m_mutex[ForEachMutex(threads[t].coll)] = NoThread
    /\ threads' = [threads EXCEPT ![t].pc = "for_each_iter",
                                  ![t].start = m_list[threads[t].coll]]
    /\ UNCHANGED <<m_list, m_mutex, whole, received, dvars, lvars, cvars>>

ForEachLock(t) ==
    /\ threads[t].pc = "for_each_lock"
    /\ m_mutex[ForEachMutex(threads[t].coll)] = NoThread
    /\ m_mutex' = [m_mutex EXCEPT ![ForEachMutex(threads[t].coll)] = t]
    /\ threads' = [threads EXCEPT ![t].pc = "for_each_iter",
                                  ![t].start = m_list[threads[t].coll]]
    /\ UNCHANGED <<m_list, whole, received, dvars, lvars, cvars>>

ForEachVisit(t) ==
    /\ threads[t].pc = "for_each_iter"
    /\ threads[t].f = "plain"
    /\ threads[t].k < Len(m_list[threads[t].coll])
    /\ threads' = [threads EXCEPT
                     ![t].visited = Append(@, m_list[threads[t].coll][threads[t].k + 1]),
                     ![t].k = @ + 1]
    /\ UNCHANGED <<m_list, m_mutex, whole, received, dvars, lvars, cvars>>

\* Variant: the mutex stays locked when for_each_* returns.
ForEachReturnLeavesLocked(t) ==
    /\ threads[t].pc = "for_each_iter"
    /\ threads[t].k >= Len(m_list[threads[t].coll])
    /\ threads' = [threads EXCEPT ![t] = IdleFrame]
    /\ UNCHANGED <<m_list, m_mutex, whole, received, dvars, lvars, cvars>>

ForEachReturn(t) ==
    /\ threads[t].pc = "for_each_iter"
    /\ threads[t].k >= Len(m_list[threads[t].coll])
    /\ m_mutex' = [m_mutex EXCEPT ![ForEachMutex(threads[t].coll)] = NoThread]
    /\ threads' = [threads EXCEPT ![t] = IdleFrame]
    /\ UNCHANGED <<m_list, whole, received, dvars, lvars, cvars>>

(***************************************************************************)
(* for_each_* with a visitor that calls for_each_* of the same collection. *)
(* The inner call constructs a lock_guard on the std::mutex the thread     *)
(* already owns.  std::mutex is not recursive and locking it again from    *)
(* its owner is undefined: the call blocks for ever (the thread then takes *)
(* no further step), or lock() fails with std::system_error                *)
(* (resource_deadlock_would_occur), which leaves the visitor and the outer *)
(* for_each_*, whose lock_guard unlocks on the way out.                    *)
(***************************************************************************)
ForEachCallRelocking(t, c) ==
    /\ threads[t].pc = "idle"
    /\ threads' = [threads EXCEPT ![t] =
                       [IdleFrame EXCEPT !.pc = "for_each_lock", !.coll = c,
                                         !.f = "relocks"]]
    /\ UNCHANGED <<m_list, m_mutex, whole, received, dvars, lvars, cvars>>

\* The visitor is called with the next entry and calls for_each_* again.
ForEachVisitRelocks(t) ==
    /\ threads[t].pc = "for_each_iter"
    /\ threads[t].f = "relocks"
    /\ threads[t].k < Len(m_list[threads[t].coll])
    /\ threads' = [threads EXCEPT
                     ![t].visited = Append(@, m_list[threads[t].coll][threads[t].k + 1]),
                     ![t].k = @ + 1,
                     ![t].pc = "inner_lock"]
    /\ UNCHANGED <<m_list, m_mutex, whole, received, dvars, lvars, cvars>>

\* The inner lock() fails: the exception unwinds the outer for_each_*.
InnerLockThrows(t) ==
    /\ threads[t].pc = "inner_lock"
    /\ m_mutex[ForEachMutex(threads[t].coll)] = t
    /\ m_mutex' = [m_mutex EXCEPT ![ForEachMutex(threads[t].coll)] = NoThread]
    /\ threads' = [threads EXCEPT ![t].pc = "threw"]
    /\ UNCHANGED <<m_list, whole, received, dvars, lvars, cvars>>

\* The exception has left for_each_*; its caller goes on.
ForEachThrown(t) ==
    /\ threads[t].pc = "threw"
    /\ threads' = [threads EXCEPT ![t] = IdleFrame]
    /\ UNCHANGED <<m_list, m_mutex, whole, received, dvars, lvars, cvars>>

(***************************************************************************)
(* The store update of a list or search call: lock the collection's mutex, *)
(* insert the batch record by record, unlock.                              *)
(***************************************************************************)
ApplyCall(t, c, b) ==
    /\ threads[t].pc = "idle"
    /\ threads' = [threads EXCEPT ![t] =
                       [IdleFrame EXCEPT !.pc = "apply_lock", !.coll = c, !.batch = b,
                                         !.again = (threads[t].last = <<c, b>>)]]
    /\ UNCHANGED <<m_list, m_mutex, whole, received, dvars, lvars, cvars>>

ApplyLock(t) ==
    /\ threads[t].pc = "apply_lock"
    /\ m_mutex[ApplyMutex(threads[t].coll)] = NoThread
    /\ m_mutex' = [m_mutex EXCEPT ![ApplyMutex(threads[t].coll)] = t]
    /\ threads' = [threads EXCEPT ![t].pc = "apply_iter",
                                  ![t].start = m_list[threads[t].coll]]
    /\ UNCHANGED <<m_list, whole, received, dvars, lvars, cvars>>

ApplyInsert(t) ==
    /\ threads[t].pc = "apply_iter"
    /\ threads[t].k < Len(threads[t].batch)
    /\ m_list' = [m_list EXCEPT ![threads[t].coll] =
                      InsertOrReplace(@, threads[t].batch[threads[t].k + 1])]
    /\ threads' = [threads EXCEPT ![t].k = @ + 1]
    /\ received' = [received EXCEPT ![threads[t].coll] =
                        @ \cup {SlotPair(threads[t].batch[threads[t].k + 1])}]
    /\ UNCHANGED <<m_mutex, whole, dvars, lvars, cvars>>

ApplyReturn(t) ==
    /\ threads[t].pc = "apply_iter"
    /\ threads[t].k >= Len(threads[t].batch)
    /\ m_mutex' = [m_mutex EXCEPT ![ApplyMutex(threads[t].coll)] = NoThread]
    /\ threads' = [threads EXCEPT ![t] =
                       [IdleFrame EXCEPT !.last = <<threads[t].coll, threads[t].batch>>]]
    /\ whole' = [whole EXCEPT ![threads[t].coll] = ApplyAll(@, threads[t].batch)]
    /\ UNCHANGED <<m_list, received, dvars, lvars, cvars>>

(***************************************************************************)
(* get_anime_list_sync and search_anime_sync: send the request, hand the   *)
(* response to deserialize, apply the records it returns to the call's     *)
(* collection (the store update above).                                    *)
(***************************************************************************)
ListCall(t, c) ==
    /\ threads[t].pc = "idle"
    /\ threads' = [threads EXCEPT ![t] =
                       [IdleFrame EXCEPT !.pc = "transport", !.coll = c]]
    /\ UNCHANGED <<m_list, m_mutex, whole, received, dvars, lvars, cvars>>

\* The transport reports a failure: the call returns, nothing is applied.
ListTransportFailed(t) ==
    /\ threads[t].pc = "transport"
    /\ threads' = [threads EXCEPT ![t] = IdleFrame]
    /\ UNCHANGED <<m_list, m_mutex, whole, received, dvars, lvars, cvars>>

\* The response arrived and deserialize has run on it: the read loop got
\* through the first n nodes (all of them, or a read failed after the
\* n-th) and returned the records finalized by then.
ListDeserialized(t) ==
    /\ threads[t].pc = "transport"
    /\ \E items \in ListResponses, spaced \in BOOLEAN :
          LET nodes == Encode(ResponseShape(threads[t].coll), items, spaced)
          IN  \E n \in 0..Len(nodes) :
                 threads' = [threads EXCEPT
                               ![t].pc = "apply_lock",
                               ![t].batch = RunTo(nodes, n).res,
                               ![t].cut = (n < Len(nodes))]
    /\ UNCHANGED <<m_list, m_mutex, whole, received, dvars, lvars, cvars>>

(***************************************************************************)
(* involke_lock_function and involke_unlock_function: curl calls the first *)
(* before it touches shared data of one kind and the second when it is     *)
(* done; the first blocks while the kind's mutex is taken.                 *)
(***************************************************************************)
InvolkeLockCall(t, data) ==
    /\ transfers[t].pc = "idle"
    /\ data \notin transfers[t].held
    /\ transfers' = [transfers EXCEPT ![t].pc = "lock", ![t].data = data]
    /\ UNCHANGED <<map_mutex, dvars, svars, cvars>>

InvolkeLock(t) ==
    /\ transfers[t].pc = "lock"
    /\ map_mutex[map_mutex_find(transfers[t].data)] = NoThread
    /\ map_mutex' = [map_mutex EXCEPT ![map_mutex_find(transfers[t].data)] = t]
    /\ transfers' = [transfers EXCEPT ![t].pc = "idle", ![t].data = "none",
                                      ![t].held = @ \cup {transfers[t].data}]
    /\ UNCHANGED <<dvars, svars, cvars>>

InvolkeUnlock(t, data) ==
    /\ transfers[t].pc = "idle"
    /\ data \in transfers[t].held
    /\ map_mutex' = [map_mutex EXCEPT ![map_mutex_find(data)] = NoThread]
    /\ transfers' = [transfers EXCEPT ![t].held = @ \ {data}]
    /\ UNCHANGED <<dvars, svars, cvars>>

(***************************************************************************)
(* get_image_sync: return the cached payload of the key, or fetch it,      *)
(* store it if the fetch succeeded, and return it.                         *)
(***************************************************************************)
GetImageCall(key) ==
    /\ get_image.pc = "idle"
    /\ get_image.calls < MaxCalls
    /\ get_image' = [IdleGetImage EXCEPT
                        !.pc = "find", !.key = key,
                        !.known = FetchedBefore(key),
                        !.calls = get_image.calls + 1]
    /\ UNCHANGED <<image_cache, fetch_history, dvars, svars, lvars>>

\* The lookup: a hit returns the stored payload, a miss starts the fetch.
GetImageFind ==
    /\ get_image.pc = "find"
    /\ IF cache_find(image_cache, get_image.key)
       THEN /\ get_image' = [get_image EXCEPT
                               !.pc = "return", !.hit = TRUE,
                               !.value = cache_at(image_cache, get_image.key)]
            /\ UNCHANGED fetch_history
       ELSE /\ get_image' = [get_image EXCEPT !.pc = "fetch"]
            /\ fetch_history' =
                  [fetch_history EXCEPT !.after[get_image.key] =
                      IF FetchedBefore(get_image.key) THEN @ + 1 ELSE @]
    /\ UNCHANGED <<image_cache, dvars, svars, lvars>>

\* The fetch succeeded with a payload: it is stored and returned.
GetImageFetched(payload) ==
    /\ get_image.pc = "fetch"
    /\ image_cache' = cache_store(image_cache, get_image.key, payload)
    /\ fetch_history' =
          [fetch_history EXCEPT !.first =
              IF FetchedBefore(get_image.key) THEN @
              ELSE @ \cup {<<get_image.key, payload>>}]
    /\ get_image' = [get_image EXCEPT !.pc = "return", !.value = payload]
    /\ UNCHANGED <<dvars, svars, lvars>>

\* The fetch failed: nothing is stored.
GetImageFetchFailed ==
    /\ get_image.pc = "fetch"
    /\ get_image' = [get_image EXCEPT !.pc = "return", !.value = S_Empty]
    /\ UNCHANGED <<image_cache, fetch_history, dvars, svars, lvars>>

GetImageReturn ==
    /\ get_image.pc = "return"
    /\ get_image' = [IdleGetImage EXCEPT !.calls = get_image.calls]
    /\ UNCHANGED <<image_cache, fetch_history, dvars, svars, lvars>>

(***************************************************************************)
(* Specifications.                                                         *)
(***************************************************************************)
vars == <<dvars, svars, lvars, cvars>>

Next == ReadNode \/ ReadEnd \/ ReadError

\* deserialize on the documents of the two wire shapes
Spec == Init /\ [][Next]_vars

\* deserialize on arbitrary node streams
SpecRaw == InitRaw /\ [][Next]_vars

\* deserialize on what serialize wrote
SpecRoundTrip == InitRoundTrip /\ [][Next]_vars

\* One caller thread: store updates and traversals one after another.
NextStore ==
    \/ \E c \in StoreColls : ForEachCall(1, c)
    \/ ForEachLock(1)
    \/ ForEachVisit(1)
    \/ ForEachReturn(1)
    \/ \E c \in StoreColls, b \in Batches : ApplyCall(1, c, b)
    \/ ApplyLock(1)
    \/ ApplyInsert(1)
    \/ ApplyReturn(1)

SpecStore == InitMAL /\ [][NextStore]_vars

\* Several caller threads at once.
NextConc ==
    \E t \in Threads :
        \/ \E c \in ConcColls : ForEachCall(t, c)
        \/ ForEachLock(t)
        \/ ForEachVisit(t)
        \/ ForEachReturn(t)
        \/ \E c \in ConcColls, b \in ConcBatches : ApplyCall(t, c, b)
        \/ ApplyLock(t)
        \/ ApplyInsert(t)
        \/ ApplyReturn(t)

SpecConc == InitMAL /\ [][NextConc]_vars

\* One thread making list and search calls while the others traverse.
NextList ==
    \/ \E t \in ListCallers :
          \/ \E c \in ListColls : ListCall(t, c)
          \/ ListTransportFailed(t)
          \/ ListDeserialized(t)
          \/ ApplyLock(t)
          \/ ApplyInsert(t)
          \/ ApplyReturn(t)
    \/ \E t \in ListReaders :
          \/ \E c \in ListColls : ForEachCall(t, c)
          \/ ForEachLock(t)
          \/ ForEachVisit(t)
          \/ ForEachReturn(t)

SpecList == InitMAL /\ [][NextList]_vars

\* Traversals with plain and with relocking visitors, and updates.
NextVisit ==
    \E t \in Threads :
        \/ \E c \in VisitColls : ForEachCall(t, c)
        \/ \E c \in VisitColls : ForEachCallRelocking(t, c)
        \/ ForEachLock(t)
        \/ ForEachVisit(t)
        \/ ForEachVisitRelocks(t)
        \/ InnerLockThrows(t)
        \/ ForEachThrown(t)
        \/ ForEachReturn(t)
        \/ \E c \in VisitColls, b \in VisitBatches : ApplyCall(t, c, b)
        \/ ApplyLock(t)
        \/ ApplyInsert(t)
        \/ ApplyReturn(t)

\* A thread inside a traversal keeps running: it makes its next visit and
\* returns when it can.
SpecVisit ==
    /\ InitMAL
    /\ [][NextVisit]_vars
    /\ \A t \in Threads : WF_vars(ForEachVisit(t)) /\ WF_vars(ForEachReturn(t))

\* Transfers of several threads driving the shared handle's callbacks.
NextShare ==
    \E t \in Threads :
        \/ \E data \in curl_lock_data : InvolkeLockCall(t, data)
        \/ InvolkeLock(t)
        \/ \E data \in curl_lock_data : InvolkeUnlock(t, data)

SpecShare == InitMAL /\ [][NextShare]_vars

\* One caller asking for images, one call after another.
NextCache ==
    \/ \E key \in CacheKeys : GetImageCall(key)
    \/ GetImageFind
    \/ \E payload \in Payloads : GetImageFetched(payload)
    \/ GetImageFetchFailed
    \/ GetImageReturn

SpecCache == InitMAL /\ [][NextCache]_vars


(***************************************************************************)
(* Properties of deserialize.                                              *)
(***************************************************************************)
Done == ret = 0

\* C1: shape A and shape B documents of the same items, with or without
\* whitespace nodes, deserialize to sequences of the same length whose
\* records are equal position by position; the empty item list included.
ShapeIndependent ==
    (Done /\ doc.shape \in {"A", "B"}) =>
        \A shape \in {"A", "B"}, spaced \in BOOLEAN :
            LET other == Run(Encode(shape, doc.items, spaced)).res
            IN  /\ Len(other) = Len(res)
                /\ \A i \in 1..Len(res) : other[i] = res[i]

\* C2: a shape A document of n >= 1 entries yields exactly n records, in
\* stream order, the k-th carrying the values of the k-th entry; the
\* closing </anime> adds none.
ShapeAYieldsItsEntries ==
    (Done /\ doc.shape = "A" /\ Len(doc.items) >= 1) =>
        /\ Len(res) = Len(doc.items)
        /\ \A k \in 1..Len(doc.items) :
              /\ res[k]["ANIMEDBID"] = doc.items[k].id
              /\ res[k]["SERIESTITLE"] = doc.items[k].title
              /\ \A f \in member_map \ {"ANIMEDBID", "SERIESTITLE"} :
                    res[k][f] = S_Empty

\* C2 witness: {id:5,title:Foo} then {id:7,title:Bar}, read to the end.
ShapeATwoEntriesRead ==
    /\ Done
    /\ doc.shape = "A"
    /\ doc.items = <<[id |-> S_5, title |-> S_Foo], [id |-> S_7, title |-> S_Bar]>>
    /\ Len(res) = 2
    /\ res[1]["SERIESTITLE"] = S_Foo
    /\ res[2]["SERIESTITLE"] = S_Bar

\* The three nodes ending at position p are an element whose name is not in
\* the field map, carrying non-empty text.
UnknownElementEndsAt(p) ==
    /\ p >= 3
    /\ xml[p - 2].type = "ELEMENT"
    /\ xml[p - 2].name \notin DOMAIN field_map
    /\ xml[p - 1].type = "TEXT"
    /\ Len(xml[p - 1].value) > 0
    /\ xml[p].type = "END_ELEMENT"
    /\ xml[p].name = xml[p - 2].name

\* C3: after the start, text and end nodes of an unknown element the
\* accumulator holds what it held before them, wherever the element stands.
UnknownElementLeavesAccumulator ==
    UnknownElementEndsAt(pos) => anime = Run(SubSeq(xml, 1, pos - 3)).anime

\* Node p is the end element of the per-item wrapper in force when it is read.
ClosesItemWrapper(p) ==
    /\ xml[p].type = "END_ELEMENT"
    /\ xml[p].name =
          IF Run(SubSeq(xml, 1, p - 1)).entry_after_anime THEN "entry" ELSE "anime"

\* C4: a stream with no end element of its per-item wrapper has no
\* finalized record when reading stops.
UnclosedYieldsNoRecords ==
    (ret # 1 /\ \A p \in 1..pos : ~ClosesItemWrapper(p)) => res = << >>

\* The stream without its significant-whitespace nodes.
StripWhitespace(nodes) == SelectSeq(nodes, LAMBDA n : n.type # "SIGNIFICANT_WHITESPACE")

\* C5: reading a significant-whitespace node changes none of the locals.
WhitespaceChangesNothing ==
    [][(ret = 1 /\ pos < Len(xml) /\ pos' = pos + 1
          /\ xml[pos + 1].type = "SIGNIFICANT_WHITESPACE")
        => UNCHANGED <<field, prev_field, entry_after_anime, seen_anime,
                       seen_entry, anime, res>>]_vars

\* C5, the consequence: the records returned are those of the stream
\* without its whitespace nodes.
WhitespaceKeepsRecords ==
    Done => res = Run(StripWhitespace(xml)).res

\* C15: the records finalized so far are as many as the end elements read
\* so far that are named as the per-item wrapper in force (entry once
\* entry_after_anime is set, anime before); an end element of any other
\* name, a name the field map does not hold included, has added none.
RecordsMatchWrapperEnds ==
    Len(res) = Cardinality({p \in 1..pos : ClosesItemWrapper(p)})

\* C16: reading a node leaves the records already in the output as they
\* are; a record that is added is a copy of the accumulator, which is then
\* a fresh empty record; so each record holds the values of its own item
\* and nothing of the item before.
FinalizeCopiesAndResets ==
    /\ [][(ret = 1 /\ pos' = pos + 1) =>
            /\ Len(res') \in {Len(res), Len(res) + 1}
            /\ SubSeq(res', 1, Len(res)) = res
            /\ Len(res') = Len(res) + 1 =>
                  (res'[Len(res')] = anime /\ anime' = Anime)]_vars
    /\ [](\A k \in 1..Len(res) :
             k <= Len(doc.items) => res[k] = RecordOf(doc.items[k]))

\* C16 witness: {id:5,title:Foo} then an item with an id and an empty
\* title element, read to the end: the second record has no title.
SecondRecordStartsEmpty ==
    /\ Done
    /\ doc.items = <<[id |-> S_5, title |-> S_Foo], [id |-> S_7, title |-> S_Empty]>>
    /\ Len(res) = 2
    /\ res[1]["SERIESTITLE"] = S_Foo
    /\ res[2]["SERIESTITLE"] = S_Empty
    /\ res[2]["ANIMEDBID"] = S_7

\* A start element of the name has been read among the first p nodes.
StartSeen(name, p) == \E q \in 1..p : xml[q] = Element(name)

\* C17: entry_after_anime never returns to false; it changes only at a
\* start element of entry that is the first one and follows a start
\* element of anime; once a start element of entry has been read it does
\* not change.
ShapeDecidedOnce ==
    [][(ret = 1 /\ pos' = pos + 1) =>
        /\ entry_after_anime => entry_after_anime'
        /\ entry_after_anime' # entry_after_anime =>
              /\ xml[pos + 1] = Element("entry")
              /\ ~StartSeen("entry", pos)
              /\ StartSeen("anime", pos)
        /\ StartSeen("entry", pos) => entry_after_anime' = entry_after_anime]_vars

\* C17 witness: <anime><entry> set the flag, and it is still set after
\* the start and the end of a second entry.
ShapeBKeptAfterSecondEntry ==
    /\ pos = 4
    /\ xml[1] = Element("anime")
    /\ xml[2] = Element("entry")
    /\ xml[3] = Element("entry")
    /\ xml[4] = EndElement("entry")
    /\ entry_after_anime
    /\ Len(res) = 1

\* C18: after a read failure the records returned are those finalized by
\* the nodes read before it, one per wrapper end among them, and they are
\* the first records of what the whole stream yields; the accumulator
\* under construction is not among them.
FailureReturnsFinalizedPrefix ==
    ret = -1 =>
        LET full == Run(xml).res
            n == Cardinality({p \in 1..pos : ClosesItemWrapper(p)})
        IN  /\ res = RunTo(xml, pos).res
            /\ Len(res) = n
            /\ n <= Len(full)
            /\ res = SubSeq(full, 1, n)

\* C18 witness: the read failed inside the second of two items, after the
\* second item's id was set: the first record alone is returned.
FailedInsideSecondItem ==
    /\ ret = -1
    /\ Len(doc.items) = 2
    /\ Len(res) = 1
    /\ res[1] = RecordOf(doc.items[1])
    /\ anime["ANIMEDBID"] = doc.items[2].id

\* C20: a document whose envelope holds no item, read to the end, yields
\* no record; <anime></anime> in particular yields none.
EmptyEnvelopeYieldsNothing ==
    (Done /\ doc.shape \in {"A", "B"} /\ doc.items = << >>) => res = << >>

\* The user fields serialize writes.
SerializedFields ==
    {"MYWATCHEDEPISODES", "MYSTATUS", "MYSCORE", "MYSTARTDATE", "MYFINISHDATE",
     "MYREWATCHING", "MYREWATCHINGEP", "MYTAGS"}

\* C14: a serialized record inside an envelope deserializes to one record
\* whose serialized user fields hold the values of the record, and none of
\* whose fields holds anything but its own value of the record.
RoundTripKeepsUserFields ==
    (Done /\ doc.shape = "serialized") =>
        /\ Len(res) = 1
        /\ \A f \in SerializedFields : res[1][f] = doc.record[f]
        /\ \A f \in member_map : res[1][f] \in {S_Empty, doc.record[f]}


(***************************************************************************)
(* Properties of the catalog store.                                        *)
(***************************************************************************)
Min(a, b) == IF a < b THEN a ELSE b

\* The year-month prefix of a start date: its first 7 characters.
YearMonth(a) == [i \in 1..Min(7, Len(a["SERIESDATEBEGIN"])) |-> a["SERIESDATEBEGIN"][i]]

\* a is before b in lexicographic order.
LexLess(a, b) ==
    \E i \in 1..Len(b) :
        /\ \A j \in 1..(i - 1) : j <= Len(a) /\ a[j] = b[j]
        /\ i > Len(a) \/ a[i] < b[i]

\* The order of the claim: later year-month first, then title ascending.
OrderedBefore(a, b) ==
    \/ LexLess(YearMonth(b), YearMonth(a))
    \/ YearMonth(a) = YearMonth(b) /\ LexLess(a["SERIESTITLE"], b["SERIESTITLE"])

\* Same year-month prefix and same title.
SameSlot(a, b) ==
    YearMonth(a) = YearMonth(b) /\ a["SERIESTITLE"] = b["SERIESTITLE"]

\* C6: a traversal visits the entries in descending order of year-month
\* prefix and, within a prefix, in ascending order of title.
TraversalInOrder ==
    \A t \in Threads :
        \A i, j \in 1..Len(threads[t].visited) :
            i < j => OrderedBefore(threads[t].visited[i], threads[t].visited[j])

\* C6 witness: a traversal has visited 2020-04 "Bar", 2020-04 "Foo" and
\* 2019-10 "Foo", in that order.
TraversalVisitedThree ==
    \E t \in Threads :
        /\ threads[t].pc = "for_each_iter"
        /\ Len(threads[t].visited) = 3
        /\ threads[t].visited[1] = R4
        /\ threads[t].visited[2] \in {R1, R2}
        /\ threads[t].visited[3] = R3

\* C7: an update that repeats the update just completed (same collection,
\* same batch) leaves the collection as the first one left it.
SecondApplyChangesNothing ==
    \A t \in Threads :
        (/\ threads[t].pc = "apply_iter"
         /\ threads[t].again
         /\ threads[t].k = Len(threads[t].batch))
            => m_list[threads[t].coll] = threads[t].start

\* C7 witness: the batch <<R1, R2>> (two records of one slot) has been
\* applied a second time to a collection that also holds another entry.
SecondApplyDone ==
    \E t \in Threads :
        /\ threads[t].pc = "apply_iter"
        /\ threads[t].again
        /\ threads[t].batch = <<R1, R2>>
        /\ threads[t].k = 2
        /\ Len(m_list[threads[t].coll]) = 2

\* C8: inserting a record whose slot (year-month prefix, title) is taken
\* replaces the entry of that slot: the size stays, the slot holds the new
\* record, the other entries are untouched.
ReinsertReplaces ==
    [][\A t \in Threads :
          (/\ threads[t].pc = "apply_iter"
           /\ threads'[t].pc = "apply_iter"
           /\ threads'[t].k = threads[t].k + 1)
             => LET x == threads[t].batch[threads[t].k + 1]
                    old == m_list[threads[t].coll]
                    new == m_list'[threads[t].coll]
                IN  \A i \in 1..Len(old) :
                        SameSlot(old[i], x) =>
                            /\ Len(new) = Len(old)
                            /\ new[i] = x
                            /\ \A j \in 1..Len(old) : j # i => new[j] = old[j]]_vars

\* C8 witness: R2 has just been inserted into a collection that held R1
\* in its slot; the collection has the size it had and holds R2 there.
ReinsertedUpdatedRecord ==
    \E t \in Threads :
        /\ threads[t].pc = "apply_iter"
        /\ threads[t].k = 1
        /\ threads[t].batch[1] = R2
        /\ Len(m_list[threads[t].coll]) = Len(threads[t].start)
        /\ \E i \in 1..Len(threads[t].start) :
              threads[t].start[i] = R1 /\ m_list[threads[t].coll][i] = R2

\* The mutex a thread is waiting for.
WantedMutex(t) ==
    IF threads[t].pc = "for_each_lock" THEN ForEachMutex(threads[t].coll)
    ELSE ApplyMutex(threads[t].coll)

Waiting(t) == threads[t].pc \in {"for_each_lock", "apply_lock"}
Inside(t) == threads[t].pc \in {"for_each_iter", "apply_iter"}

\* C9: a thread waits only for a mutex held by a thread that works on the
\* same collection, and no thread holds more than one mutex.
NoCrossCollectionBlocking ==
    /\ \A t \in Threads :
          (Waiting(t) /\ m_mutex[WantedMutex(t)] # NoThread)
             => threads[m_mutex[WantedMutex(t)]].coll = threads[t].coll
    /\ \A t \in Threads : Cardinality({c \in Colls : m_mutex[c] = t}) <= 1

\* C9 witness: one thread is in the middle of a traversal of a collection
\* while another is in the middle of an update of a different one.
TraversalBesideUpdate ==
    \E t, u \in Threads :
        /\ threads[t].pc = "for_each_iter"
        /\ threads[t].k >= 1
        /\ threads[t].k < Len(m_list[threads[t].coll])
        /\ threads[u].pc = "apply_iter"
        /\ threads[u].k = 1
        /\ Len(threads[u].batch) = 2
        /\ threads[u].coll # threads[t].coll

\* C10: at most one thread is inside a call on a collection; an update
\* finds in the collection exactly its own insertions on top of what it
\* found when it took the lock; a traversal finds the collection as it was
\* when it took the lock, from its first visit to its last.
SameCollectionExclusive ==
    /\ \A t, u \in Threads :
          (t # u /\ Inside(t) /\ Inside(u)) => threads[t].coll # threads[u].coll
    /\ \A t \in Threads :
          threads[t].pc = "apply_iter" =>
              m_list[threads[t].coll] =
                  ApplyAll(threads[t].start, SubSeq(threads[t].batch, 1, threads[t].k))
    /\ \A t \in Threads :
          threads[t].pc = "for_each_iter" =>
              m_list[threads[t].coll] = threads[t].start

\* C10 witness: a thread is between the visits of a traversal while
\* another waits to update the same collection.
UpdateWaitsForTraversal ==
    \E t, u \in Threads :
        /\ threads[t].pc = "for_each_iter"
        /\ threads[t].k >= 1
        /\ threads[t].k < Len(m_list[threads[t].coll])
        /\ threads[u].pc = "apply_lock"
        /\ threads[u].coll = threads[t].coll
        /\ threads[u].batch # << >>

\* C13: a collection that nobody is updating, and so every collection a
\* traversal sees, is what the completed calls leave when each one's batch
\* (the records deserialize returned, also after a read failure) is applied
\* in one piece; a call whose transport failed has applied nothing.
ReadersSeeWholeBatches ==
    /\ \A t \in Threads :
          threads[t].pc = "for_each_iter" =>
              m_list[threads[t].coll] = whole[threads[t].coll]
    /\ \A c \in Colls : m_mutex[c] = NoThread => m_list[c] = whole[c]

\* C13 witness: a call whose response failed after one record was
\* finalized has applied that record and still holds the lock, while a
\* traversal of the same collection waits.
CutBatchAppliedWhole ==
    \E t, u \in Threads :
        /\ threads[u].pc = "apply_iter"
        /\ threads[u].cut
        /\ Len(threads[u].batch) = 1
        /\ threads[u].k = 1
        /\ Len(m_list[threads[u].coll]) = 2
        /\ threads[t].pc = "for_each_lock"
        /\ threads[t].coll = threads[u].coll

\* The visitor of t's traversal has called for_each_* of the collection.
Relocked(t) == threads[t].pc \in {"inner_lock", "threw"}

\* A traversal with a plain visitor returns.
PlainVisitorTerminates ==
    \A t \in Threads :
        (threads[t].pc = "for_each_iter" /\ threads[t].f = "plain")
            ~> (threads[t].pc = "idle")

\* A thread outside every call holds no mutex.
IdleHoldsNothing ==
    \A t \in Threads :
        threads[t].pc = "idle" => \A c \in Colls : m_mutex[c] # t

OneSlotPerPair ==
    \A c \in Colls :
        /\ Len(m_list[c]) = Cardinality(received[c])
        /\ {SlotPair(m_list[c][i]) : i \in 1..Len(m_list[c])} = received[c]

\* C21 witness: an update has handed a collection that held an entry of
\* another pair the records R1 and R2, which have the pair (2020-04, "Foo")
\* and the catalog ids 5 and 7; the collection holds two entries, one of
\* them for (2020-04, "Foo").
TwoIdsShareOneSlot ==
    \E c \in Colls :
        /\ threads[1].pc = "idle"
        /\ threads[1].last = <<c, <<R1, R2>>>>
        /\ R1["ANIMEDBID"] # R2["ANIMEDBID"]
        /\ SlotPair(R1) = SlotPair(R2)
        /\ Cardinality(received[c]) = 2
        /\ Len(m_list[c]) = 2
        /\ Cardinality({i \in 1..Len(m_list[c]) : m_list[c][i] \in {R1, R2}}) = 1

(***************************************************************************)
(* Properties of the lock bridge.                                          *)
(***************************************************************************)
\* C11: between the lock and the unlock of a kind no other thread holds
\* that kind, and a thread that waits for a kind is kept waiting only by a
\* thread that holds that same kind, never by the holder of another kind.
PerKindSerialized ==
    /\ \A t, u \in Threads :
          t # u => transfers[t].held \cap transfers[u].held = {}
    /\ \A t \in Threads :
          (/\ transfers[t].pc = "lock"
           /\ map_mutex[map_mutex_find(transfers[t].data)] # NoThread)
             => transfers[t].data
                  \in transfers[map_mutex[map_mutex_find(transfers[t].data)]].held

\* C11 witness: two threads hold different kinds at once, and one of them
\* waits for the kind the other holds.
DisjointKindsHeldTogether ==
    \E t, u \in Threads :
        /\ t # u
        /\ transfers[t].held = {"CURL_LOCK_DATA_COOKIE"}
        /\ transfers[u].held = {"CURL_LOCK_DATA_DNS"}
        /\ transfers[u].pc = "lock"
        /\ transfers[u].data = "CURL_LOCK_DATA_COOKIE"

(***************************************************************************)
(* Properties of the image cache.                                          *)
(***************************************************************************)
\* C12: once a key has been fetched successfully no fetch is started for
\* it again, and every later call for it returns the payload stored then.
FetchedOnce ==
    /\ \A key \in CacheKeys : fetch_history.after[key] = 0
    /\ (get_image.pc = "return" /\ get_image.known)
          => /\ get_image.hit
             /\ get_image.value = FirstPayload(get_image.key)

\* C12 witness: after fetches of "url1" and "url2" the last call of the
\* run, for "url1", is about to return the payload stored for it.
SecondCallServedFromCache ==
    /\ get_image.pc = "return"
    /\ get_image.key = "url1"
    /\ get_image.known
    /\ get_image.hit
    /\ get_image.calls = MaxCalls
    /\ get_image.value = S_Foo
    /\ cache_find(image_cache, "url2")

====
